---- MODULE Spec2Model ----
(***************************************************************************)
(* A model of mcp_health.core.data_analysis.HealthcareProductivityAnalyzer *)
(* (src/mcp_health/core/data_analysis.py): the analyzer object, the tables *)
(* it reads, and its operations calculate_baseline_metrics,                *)
(* calculate_ai_impact_metrics, calculate_cost_savings,                    *)
(* calculate_roi_analysis and load_data.                                   *)
(*                                                                         *)
(* Numbers.  The program computes with floating-point numbers.  The model  *)
(* computes with exact rationals n/d (rounding is not modelled) extended   *)
(* by the two IEEE specials the program can produce, infinity and NaN.     *)
(* Every number carries the flag np: TRUE for a numpy scalar (anything     *)
(* read out of a pandas table), FALSE for a native Python number (a        *)
(* literal, a constructor constant).  The flag decides what a division by  *)
(* zero does: native / native raises ZeroDivisionError, any division with  *)
(* a numpy operand yields inf or nan and returns.                          *)
(*                                                                         *)
(* Units.  Money is counted in 10^9 yen, people in 10^6, money per person  *)
(* in 10^3 yen, so that 45e12 yen is 45000, 47000000 patients is 47 and    *)
(* the wage of 3000 yen per hour is 3.  All products keep their meaning:   *)
(* (10^3 yen per patient) * (10^6 patients) = 10^9 yen.                    *)
(***************************************************************************)
EXTENDS Integers, Sequences, FiniteSets, TLC

\* one analyzer and its caller
VARIABLES data, ai_improvements, japan_constants, last
\* several analyzers in one process: the objects on the heap, the analyzers,
\* the number of report runs begun, the first and the latest finished one,
\* the numpy generator
VARIABLES objs, fleet, started, first_run, last_run, rng
\* the configurations of utils/config.py: the mappings that exist, the
\* configurations callers have obtained, the file at config_path
VARIABLES dicts, configs, config_file

single == <<data, ai_improvements, japan_constants, last>>
sweep == <<objs, fleet, started, first_run, last_run, rng>>
settings == <<dicts, configs, config_file>>
vars == <<single, sweep, settings>>

----------------------------------------------------------------------------
(* Bounds of the model *)

\* the longest horizon passed to calculate_roi_analysis
MaxYears == 4
\* the report runs of a scenario sweep
MaxRuns == 2
\* the configurations callers obtain
MaxConfigs == 2

----------------------------------------------------------------------------
(* Numbers: exact rationals with the IEEE specials *)

Abs(x) == IF x < 0 THEN -x ELSE x

RECURSIVE GCD(_, _)
GCD(a, b) == IF b = 0 THEN a ELSE GCD(b, a % b)

\* the rational n/d in lowest terms with a positive denominator (d # 0)
Fin(n, d, np) ==
    LET g == GCD(Abs(n), Abs(d))
        s == IF d < 0 THEN -1 ELSE 1
    IN  [k |-> "fin", n |-> (s * n) \div g, d |-> Abs(d) \div g, np |-> np]

Inf(sign, np) == [k |-> "inf", n |-> sign, d |-> 1, np |-> np]
NaN(np) == [k |-> "nan", n |-> 0, d |-> 1, np |-> np]

\* a native Python number, a numpy scalar
Py(n, d) == Fin(n, d, FALSE)
Np(n, d) == Fin(n, d, TRUE)

IsFin(x) == x.k = "fin"
IsNaN(x) == x.k = "nan"
IsInf(x) == x.k = "inf"
IsZero(x) == x.k = "fin" /\ x.n = 0
Sign(x) == IF x.n > 0 THEN 1 ELSE IF x.n < 0 THEN -1 ELSE 0

NNeg(x) == [x EXCEPT !.n = -x.n]

\* Precision.  A result is exact as long as its numerator and denominator
\* fit the integers of the model; one that would not fit is rounded, by
\* halving a numerator and a denominator together, as the code's floats
\* round a result that does not fit 53 bits.
Fits(x, y) == x = 0 \/ y = 0 \/ Abs(x) <= (2^29) \div Abs(y)
Coarser(x) == [x EXCEPT !.n = x.n \div 2, !.d = x.d \div 2]

\* a + b for finite a and b
RECURSIVE AddFin(_, _, _)
AddFin(a, b, np) ==
    LET g == GCD(a.d, b.d) IN
    IF Fits(a.d \div g, b.d) /\ Fits(a.n, b.d \div g) /\ Fits(b.n, a.d \div g)
    THEN LET l == (a.d \div g) * b.d
         IN  Fin(a.n * (l \div a.d) + b.n * (l \div b.d), l, np)
    ELSE IF a.d >= b.d /\ a.d >= 2 THEN AddFin(Coarser(a), b, np)
    ELSE IF b.d >= 2 THEN AddFin(a, Coarser(b), np)
    ELSE Fin(a.n + b.n, 1, np)

\* (p * q) / (r * s) for r, s > 0
RECURSIVE MulFin(_, _, _, _, _)
MulFin(p, q, r, s, np) ==
    IF Fits(p, q) /\ Fits(r, s) THEN Fin(p * q, r * s, np)
    ELSE IF r >= s /\ r >= 2
         THEN (IF Abs(p) >= Abs(q) THEN MulFin(p \div 2, q, r \div 2, s, np)
               ELSE MulFin(p, q \div 2, r \div 2, s, np))
    ELSE IF s >= 2
         THEN (IF Abs(p) >= Abs(q) THEN MulFin(p \div 2, q, r, s \div 2, np)
               ELSE MulFin(p, q \div 2, r, s \div 2, np))
    ELSE Fin(p * q, r * s, np)

NAdd(a, b) ==
    LET np == a.np \/ b.np IN
    IF IsNaN(a) \/ IsNaN(b) THEN NaN(np)
    ELSE IF IsInf(a) /\ IsInf(b) THEN (IF a.n = b.n THEN Inf(a.n, np) ELSE NaN(np))
    ELSE IF IsInf(a) THEN Inf(a.n, np)
    ELSE IF IsInf(b) THEN Inf(b.n, np)
    ELSE AddFin(a, b, np)

NSub(a, b) == NAdd(a, NNeg(b))

NMul(a, b) ==
    LET np == a.np \/ b.np IN
    IF IsNaN(a) \/ IsNaN(b) THEN NaN(np)
    ELSE IF IsInf(a) \/ IsInf(b)
         THEN (IF Sign(a) * Sign(b) = 0 THEN NaN(np) ELSE Inf(Sign(a) * Sign(b), np))
    ELSE LET g1 == GCD(Abs(a.n), b.d)
             g2 == GCD(Abs(b.n), a.d)
         IN  MulFin(a.n \div g1, b.n \div g2, a.d \div g2, b.d \div g1, np)

\* a / b raises ZeroDivisionError: both operands native and b zero
DivRaises(a, b) == ~a.np /\ ~b.np /\ IsZero(b)

\* a / b where it does not raise (numpy: x/0 is inf, 0/0 is nan)
NDiv(a, b) ==
    LET np == a.np \/ b.np IN
    IF IsNaN(a) \/ IsNaN(b) THEN NaN(np)
    ELSE IF IsInf(a) /\ IsInf(b) THEN NaN(np)
    ELSE IF IsInf(b) THEN Fin(0, 1, np)
    ELSE IF IsZero(b)
         THEN (IF IsInf(a) THEN Inf(a.n, np)
               ELSE IF a.n = 0 THEN NaN(np) ELSE Inf(Sign(a), np))
    ELSE IF IsInf(a) THEN Inf(a.n * Sign(b), np)
    ELSE NMul(a, Fin(b.d, b.n, b.np))

\* comparisons; every comparison with NaN is false
NLt(a, b) ==
    /\ ~IsNaN(a) /\ ~IsNaN(b)
    /\ IF IsInf(a) /\ IsInf(b) THEN a.n < b.n
       ELSE IF IsInf(a) THEN a.n < 0
       ELSE IF IsInf(b) THEN b.n > 0
       ELSE IF Fits(a.n, b.d) /\ Fits(b.n, a.d) THEN a.n * b.d < b.n * a.d
       ELSE NAdd(a, NNeg(b)).n < 0
NEq(a, b) == ~IsNaN(a) /\ ~IsNaN(b) /\ a.k = b.k /\ a.n = b.n /\ a.d = b.d
NLe(a, b) == NLt(a, b) \/ NEq(a, b)
NGt(a, b) == NLt(b, a)
NGe(a, b) == NLe(b, a)

RECURSIVE NPow(_, _)
NPow(b, e) == IF e = 0 THEN Py(1, 1) ELSE NMul(b, NPow(b, e - 1))

Zero == Py(0, 1)
One == Py(1, 1)

----------------------------------------------------------------------------
(* Tables and the input set *)

\* the five datasets load_data knows, and the key generate_all_datasets
\* gives the intervention-costs table
DatasetNames == {"medical_expenditure", "workforce", "administrative_costs",
                 "patient_volume", "ai_costs"}
GeneratorCostsKey == "ai_implementation_costs"

\* A table is a sequence of rows, a row a record of the columns the analyzer
\* reads; every cell is a numpy scalar.
AdminRow(h, p, e) == [hours_per_patient |-> h, avg_processing_time |-> p, error_rate |-> e]
WorkRow(w) == [total_workers |-> Np(w, 1)]
PatRow(n, d) == [total_patients |-> Np(n, d)]
ExpRow(x) == [total_expenditure |-> Np(x, 1)]
CostRow(u, m) == [upfront_cost |-> Np(u, 1), annual_maintenance |-> Np(m, 1)]

\* DataFrame.empty
Empty(t) == Len(t) = 0

\* Series.sum()
RECURSIVE ColSum(_, _)
ColSum(t, c) == IF Len(t) = 0 THEN Np(0, 1) ELSE NAdd(Head(t)[c], ColSum(Tail(t), c))

\* Series.mean() of a non-empty table
ColMean(t, c) == NDiv(ColSum(t, c), Np(Len(t), 1))

\* dict.get(name, pd.DataFrame())
Get(d, name) == IF name \in DOMAIN d THEN d[name] ELSE << >>

\* The tables callers pass in.  Administrative costs: rows whose means are
\* 9/4, 4 and 1/40.  Workforce: a worker sum of 0, of -1 and of 2.  Patient
\* volume: a sum of 0 and of 40.  Expenditure: two rows, the first 48000.
AdminTables == { << >>,
                 << AdminRow(Np(2, 1), Np(7, 2), Np(1, 50)),
                    AdminRow(Np(5, 2), Np(9, 2), Np(3, 100)) >> }
WorkforceTables == { << >>, << WorkRow(1), WorkRow(-1) >>, << WorkRow(-1) >>,
                     << WorkRow(1), WorkRow(1) >> }
PatientTables == { << >>, << PatRow(0, 1) >>, << PatRow(30, 1), PatRow(10, 1) >> }
ExpenditureTables == { << >>, << ExpRow(48000), ExpRow(45000) >> }
CostTables == { << >>, << CostRow(0, 20) >>, << CostRow(10, 20), CostRow(30, 0) >> }

\* a mapping from a set of names to tables, each name absent or present
Opt(S) == {[has |-> FALSE, t |-> << >>]} \cup {[has |-> TRUE, t |-> x] : x \in S}
NoTable == [has |-> FALSE, t |-> << >>]
MkDict(a, w, p, e, c) ==
    LET o == [administrative_costs |-> a, workforce |-> w, patient_volume |-> p,
              medical_expenditure |-> e, ai_costs |-> c]
    IN  [x \in {y \in DatasetNames : o[y].has} |-> o[x].t]

\* the input sets passed to calculate_baseline_metrics: every subset of the
\* four tables it reads missing, empty or filled
InputSets ==
    { MkDict(a, w, p, e, NoTable) :
        a \in Opt(AdminTables), w \in Opt(WorkforceTables),
        p \in Opt(PatientTables), e \in Opt(ExpenditureTables) }

----------------------------------------------------------------------------
(* The analyzer: construction *)

\* __init__: self.ai_improvements
DefaultImprovements ==
    [admin_efficiency_gain |-> Py(13, 25), processing_speed_gain |-> Py(3, 4),
     error_reduction |-> Py(19, 25), throughput_increase |-> Py(6, 25),
     cost_reduction |-> Py(71, 1000)]

\* __init__: self.japan_constants (money in 10^9 yen, the wage in 10^3 yen)
DefaultConstants ==
    [aging_population_pct |-> Py(291, 1000), total_healthcare_cost |-> Py(45000, 1),
     admin_cost_pct |-> Py(16, 1000), average_hourly_wage |-> Py(3, 1),
     patients_per_worker_baseline |-> Py(20, 1), error_cost_multiplier |-> Py(3, 2)]

FactorKeys == DOMAIN DefaultImprovements

\* the literal 47000000 of calculate_baseline_metrics and
\* calculate_cost_savings, in 10^6 patients
AnnualPatients == 47

----------------------------------------------------------------------------
(* load_data and _generate_sample_data *)

\* _generate_sample_data.  medical_expenditure and ai_costs are literal
\* tables.  The other three are seeded random draws (47, 100 and 47 rows);
\* two rows stand for them, with sums near those of the draws, people in
\* 10^6.  The seed is set anew on every call, so total_patients is drawn
\* from the same variates as total_workers, scaled by 20, each truncated to
\* an integer.
SampleData(name) ==
    CASE name = "medical_expenditure" -> << ExpRow(45000) >>
      [] name = "workforce" ->
           << [total_workers |-> Np(6, 5)], [total_workers |-> Np(23, 20)] >>
      [] name = "administrative_costs" ->
           << AdminRow(Np(9, 4), Np(4, 1), Np(1, 40)),
              AdminRow(Np(2, 1), Np(9, 2), Np(3, 100)) >>
      [] name = "patient_volume" -> << PatRow(4801, 200), PatRow(23, 1) >>
      [] name = "ai_costs" ->
           << CostRow(1000, 200), CostRow(1500, 300), CostRow(500, 100) >>
      [] OTHER -> << >>

\* What load_data finds in the data directory, per dataset: the file is
\* absent, reading it raises, or it parses to a table (st = "ok").
FileAbsent == [st |-> "absent", t |-> << >>]
FileRaises == [st |-> "raises", t |-> << >>]
FileOk(t) == [st |-> "ok", t |-> t]

\* the table read from <name>.csv when the file parses
CsvTable(name) ==
    CASE name = "medical_expenditure" -> << ExpRow(48000), ExpRow(45000) >>
      [] name = "workforce" -> << WorkRow(1), WorkRow(1) >>
      [] name = "administrative_costs" ->
           << AdminRow(Np(2, 1), Np(7, 2), Np(1, 50)),
              AdminRow(Np(5, 2), Np(9, 2), Np(3, 100)) >>
      [] name = "patient_volume" -> << PatRow(30, 1), PatRow(10, 1) >>
      [] name = "ai_costs" -> << CostRow(0, 20) >>

\* the data directories: nothing there, every file a table, every file a
\* header without rows, and a mixture
Disks ==
    { [n \in DatasetNames |-> [st |-> "absent", t |-> << >>]],
      [n \in DatasetNames |-> FileOk(CsvTable(n))],
      [n \in DatasetNames |-> FileOk(<< >>)],
      [n \in DatasetNames |->
          IF n = "workforce" THEN FileRaises
          ELSE IF n = "ai_costs" THEN FileOk(<< CostRow(10, 20), CostRow(30, 0) >>)
          ELSE IF n = "administrative_costs" THEN FileOk(<< >>)
          ELSE FileAbsent] }

NoDisk == [n \in DatasetNames |-> FileAbsent]

\* Mutation of LoadData: a dataset whose read raises is left out
LoadData_FailedReadsLeftOut(disk) ==
    [n \in {x \in DatasetNames : disk[x].st # "raises"} |->
        IF disk[n].st = "ok" THEN disk[n].t ELSE SampleData(n)]

\* load_data: the mapping it builds, stores in self.data and returns
LoadData(disk) ==
    [n \in DatasetNames |->
        IF disk[n].st = "ok" THEN disk[n].t ELSE SampleData(n)]

\* The numpy generator of the process.  Its state is 0 right after
\* np.random.seed(42); drawing a table moves it on.
\* Mutation of Seed: the generator is not seeded
Seed_StateKept(state) == state
\* np.random.seed(42)
Seed(state) == 0
Drawn(state) == IF state = 1 THEN 2 ELSE 1
\* the datasets _generate_sample_data draws
RandomNames == {"workforce", "administrative_costs", "patient_volume"}
\* the sample table of a dataset drawn with the generator in a state
SampleDataAt(name, state) ==
    IF state = 0 \/ name \notin RandomNames THEN SampleData(name)
    ELSE CASE name = "workforce" ->
                << [total_workers |-> Np(6 + state, 5)], [total_workers |-> Np(23, 20)] >>
           [] name = "administrative_costs" ->
                << AdminRow(Np(9 + state, 4), Np(4, 1), Np(1, 40)),
                   AdminRow(Np(2, 1), Np(9, 2), Np(3, 100)) >>
           [] name = "patient_volume" ->
                << PatRow(4801 + 800 * state, 200), PatRow(23, 1) >>
\* _generate_sample_data(name) with the generator in a state
GenerateSampleData(name, state) == SampleDataAt(name, Seed(state))
\* load_data with the generator in a state, and the state it leaves
LoadDataFrom(disk, state) ==
    [n \in DatasetNames |->
        IF disk[n].st = "ok" THEN disk[n].t ELSE GenerateSampleData(n, state)]
StateAfterLoad(disk, state) ==
    IF \E n \in RandomNames : disk[n].st # "ok" THEN Drawn(Seed(state))
    ELSE IF \E n \in DatasetNames : disk[n].st # "ok" THEN Seed(state)
    ELSE state

----------------------------------------------------------------------------
(* Results of a call *)

NoDict == [x \in {} |-> Zero]
Ok(v) == [ok |-> TRUE, val |-> v, err |-> "none"]
Raise(e) == [ok |-> FALSE, val |-> NoDict, err |-> e]

\* the first key of the sequence of lookups ks that is missing: each lookup
\* is <<mapping, key>>, in the order the code evaluates them; 0 if none
RECURSIVE FirstMissing(_, _)
FirstMissing(ks, i) ==
    IF i > Len(ks) THEN 0
    ELSE IF ks[i][2] \notin DOMAIN ks[i][1] THEN i
    ELSE FirstMissing(ks, i + 1)

----------------------------------------------------------------------------
(* calculate_baseline_metrics *)

MetricKeys == {"admin_hours_per_patient", "processing_time_hours",
               "billing_error_rate", "patients_per_worker", "cost_per_patient"}

\* the three administrative metrics: the column means, or 2.0, 4.0, 0.025
AdminMetrics(admin_data) ==
    IF ~Empty(admin_data)
    THEN [admin_hours_per_patient |-> ColMean(admin_data, "hours_per_patient"),
          processing_time_hours |-> ColMean(admin_data, "avg_processing_time"),
          billing_error_rate |-> ColMean(admin_data, "error_rate")]
    ELSE [admin_hours_per_patient |-> Py(2, 1),
          processing_time_hours |-> Py(4, 1),
          billing_error_rate |-> Py(1, 40)]

\* baseline['patients_per_worker']
PatientsPerWorker(workforce_data, patient_data, constants) ==
    IF ~Empty(workforce_data) /\ ~Empty(patient_data)
    THEN LET total_workers == ColSum(workforce_data, "total_workers")
             total_patients == ColSum(patient_data, "total_patients")
         IN  IF NGt(total_workers, Zero) THEN NDiv(total_patients, total_workers)
             ELSE Py(20, 1)
    ELSE constants["patients_per_worker_baseline"]

\* baseline['cost_per_patient']
CostPerPatient(expenditure_data, patient_data, constants) ==
    IF ~Empty(expenditure_data)
    THEN LET total_cost == expenditure_data[1]["total_expenditure"]
             total_patients == IF ~Empty(patient_data)
                               THEN ColSum(patient_data, "total_patients")
                               ELSE Py(AnnualPatients, 1)
         IN  NDiv(total_cost, total_patients)
    ELSE NDiv(constants["total_healthcare_cost"], Py(AnnualPatients, 1))

\* lines 138-142: data=None stands for self.data, and an empty mapping is
\* replaced by what load_data returns
Given(stored, arg) == IF ~arg.given THEN stored ELSE arg.d
Loads(stored, arg) == DOMAIN Given(stored, arg) = {}

\* The call calculate_baseline_metrics(arg) on an analyzer whose self.data
\* is stored, with the data directory disk.  arg.given = FALSE is data=None.
\* used is the mapping the metrics are computed from, stored what self.data
\* is afterwards (load_data assigns it).
BaselineCall(stored, constants, arg, disk) ==
    LET loads == Loads(stored, arg)
        used == IF loads THEN LoadData(disk) ELSE Given(stored, arg)
        adm == AdminMetrics(Get(used, "administrative_costs"))
        baseline ==
          [admin_hours_per_patient |-> adm.admin_hours_per_patient,
           processing_time_hours |-> adm.processing_time_hours,
           billing_error_rate |-> adm.billing_error_rate,
           patients_per_worker |->
               PatientsPerWorker(Get(used, "workforce"), Get(used, "patient_volume"),
                                 constants),
           cost_per_patient |->
               CostPerPatient(Get(used, "medical_expenditure"),
                              Get(used, "patient_volume"), constants)]
    IN  [res |-> Ok(baseline), used |-> used, loads |-> loads,
         stored |-> IF loads THEN used ELSE stored]

----------------------------------------------------------------------------
(* calculate_ai_impact_metrics *)

\* Mutation of Reduced: the gain added instead of taken off
Reduced_GainAdded(b, gain) == NMul(b, NAdd(One, gain))

\* baseline * (1 - gain): the four lower-is-better metrics
Reduced(b, gain) == NMul(b, NSub(One, gain))

\* Mutation of Increased: the gain taken off instead of added
Increased_GainTakenOff(b, gain) == NMul(b, NSub(One, gain))

\* baseline * (1 + gain): patients per worker
Increased(b, gain) == NMul(b, NAdd(One, gain))

\* the lookups of lines 192-196 in the order they are evaluated
ImpactLookups(improvements, baseline) ==
    << <<baseline, "admin_hours_per_patient">>, <<improvements, "admin_efficiency_gain">>,
       <<baseline, "processing_time_hours">>, <<improvements, "processing_speed_gain">>,
       <<baseline, "billing_error_rate">>, <<improvements, "error_reduction">>,
       <<baseline, "patients_per_worker">>, <<improvements, "throughput_increase">>,
       <<baseline, "cost_per_patient">>, <<improvements, "cost_reduction">> >>

\* ai_metrics after the five assignments to the copy of baseline
ImprovedMetrics(improvements, baseline) ==
    [k \in DOMAIN baseline |->
        CASE k = "admin_hours_per_patient" ->
               Reduced(baseline[k], improvements["admin_efficiency_gain"])
          [] k = "processing_time_hours" ->
               Reduced(baseline[k], improvements["processing_speed_gain"])
          [] k = "billing_error_rate" ->
               Reduced(baseline[k], improvements["error_reduction"])
          [] k = "patients_per_worker" ->
               Increased(baseline[k], improvements["throughput_increase"])
          [] k = "cost_per_patient" ->
               Reduced(baseline[k], improvements["cost_reduction"])
          [] OTHER -> baseline[k]]

\* a missing key raises KeyError
AiImpactCall(improvements, baseline) ==
    IF FirstMissing(ImpactLookups(improvements, baseline), 1) # 0
    THEN Raise("KeyError")
    ELSE Ok(ImprovedMetrics(improvements, baseline))

\* The mappings of one call of calculate_ai_impact_metrics, as objects: heap
\* is the sequence of the mappings that exist, a reference an index of it.
\* Mutation of MappingCopy: ai_metrics = baseline, the same mapping under
\* a second name
MappingCopy_SameMapping(heap, ref) == [heap |-> heap, ref |-> ref]

\* line 189, baseline.copy(): a new mapping with the entries of the copied one
MappingCopy(heap, ref) == [heap |-> Append(heap, heap[ref]), ref |-> Len(heap) + 1]

\* target[key] = value
Assigned(target, key, value) ==
    [x \in DOMAIN target \cup {key} |-> IF x = key THEN value ELSE target[x]]

\* the right-hand side of the assignment to key, read from the mapping read
ImpactValue(read, key, gain) ==
    IF key = "patients_per_worker" THEN Increased(read[key], gain)
    ELSE Reduced(read[key], gain)

\* lines 192-196 from the i-th assignment on: each reads baseline and
\* self.ai_improvements and writes ai_metrics; the first missing key ends
\* the call with the assignments made so far in place
RECURSIVE ImpactAssignments(_, _, _, _, _)
ImpactAssignments(heap, baseline, ai_metrics, improvements, i) ==
    IF i > 5 THEN heap
    ELSE LET key == ImpactLookups(improvements, heap[baseline])[2 * i - 1][2]
             factor == ImpactLookups(improvements, heap[baseline])[2 * i][2]
         IN  IF key \notin DOMAIN heap[baseline] \/ factor \notin DOMAIN improvements
             THEN heap
             ELSE ImpactAssignments(
                      [heap EXCEPT ![ai_metrics] =
                           Assigned(@, key,
                                    ImpactValue(heap[baseline], key, improvements[factor]))],
                      baseline, ai_metrics, improvements, i + 1)

\* the mappings after the call on the caller's mapping baseline, which is
\* the first object; ai_metrics is the reference the call works on
ImpactObjects(improvements, baseline) ==
    LET copied == MappingCopy(<<baseline>>, 1)
    IN  [heap |-> ImpactAssignments(copied.heap, 1, copied.ref, improvements, 1),
         ai_metrics |-> copied.ref]

\* the caller's baseline mapping after the call
BaselineAfterImpact(improvements, baseline) == ImpactObjects(improvements, baseline).heap[1]

----------------------------------------------------------------------------
(* calculate_cost_savings *)

\* the literals 0.7 (recoverable revenue) and 0.1 (paid staff time)
RecoverableRevenue == Py(7, 10)
PaidStaffTime == Py(1, 10)

\* lines 217-226: the lookups up to the throughput ratio
SavingsLookups(baseline, ai_metrics) ==
    << <<baseline, "admin_hours_per_patient">>, <<ai_metrics, "admin_hours_per_patient">>,
       <<baseline, "billing_error_rate">>, <<ai_metrics, "billing_error_rate">>,
       <<baseline, "cost_per_patient">>,
       <<ai_metrics, "patients_per_worker">>, <<baseline, "patients_per_worker">> >>

\* line 231: the lookups after it
ProcessingLookups(baseline, ai_metrics) ==
    << <<baseline, "processing_time_hours">>, <<ai_metrics, "processing_time_hours">> >>

AdminLaborSavings(constants, baseline, ai_metrics) ==
    LET admin_hours_saved ==
          NMul(NSub(baseline["admin_hours_per_patient"],
                    ai_metrics["admin_hours_per_patient"]), Py(AnnualPatients, 1))
    IN  NMul(admin_hours_saved, constants["average_hourly_wage"])

ErrorCostSavings(constants, baseline, ai_metrics) ==
    LET error_reduction ==
          NSub(baseline["billing_error_rate"], ai_metrics["billing_error_rate"])
        baseline_error_cost ==
          NMul(NMul(baseline["cost_per_patient"], baseline["billing_error_rate"]),
               constants["error_cost_multiplier"])
    IN  NMul(NMul(error_reduction, baseline_error_cost), Py(AnnualPatients, 1))

AdditionalRevenue(baseline, ai_metrics) ==
    LET additional_patients ==
          NMul(Py(AnnualPatients, 1),
               NSub(NDiv(ai_metrics["patients_per_worker"],
                         baseline["patients_per_worker"]), One))
        avg_revenue_per_patient == NMul(baseline["cost_per_patient"], RecoverableRevenue)
    IN  NMul(additional_patients, avg_revenue_per_patient)

ProcessingEfficiencySavings(constants, baseline, ai_metrics) ==
    LET processing_hours_saved ==
          NMul(NMul(NSub(baseline["processing_time_hours"],
                         ai_metrics["processing_time_hours"]), Py(AnnualPatients, 1)),
               PaidStaffTime)
    IN  NMul(processing_hours_saved, constants["average_hourly_wage"])

\* Mutation of TotalAnnualSavings: the last category left out of the sum
TotalAnnualSavings_ThreeCategories(a, b, c, d) == NAdd(NAdd(NAdd(Zero, a), b), c)

\* sum([...]) of the four categories: ((((0 + a) + b) + c) + d)
TotalAnnualSavings(a, b, c, d) == NAdd(NAdd(NAdd(NAdd(Zero, a), b), c), d)

SavingsBreakdown(constants, baseline, ai_metrics) ==
    LET a == AdminLaborSavings(constants, baseline, ai_metrics)
        b == ErrorCostSavings(constants, baseline, ai_metrics)
        c == AdditionalRevenue(baseline, ai_metrics)
        d == ProcessingEfficiencySavings(constants, baseline, ai_metrics)
    IN  [admin_labor_savings |-> a, error_cost_savings |-> b,
         additional_revenue |-> c, processing_efficiency_savings |-> d,
         total_annual_savings |-> TotalAnnualSavings(a, b, c, d)]

\* what the throughput ratio of line 226 does when both of its operands are
\* there: ZeroDivisionError for native operands and a zero baseline,
\* otherwise nothing (a numpy operand makes the quotient inf or nan)
RatioError(baseline, ai_metrics) ==
    IF DivRaises(ai_metrics["patients_per_worker"], baseline["patients_per_worker"])
    THEN "ZeroDivisionError" ELSE "none"

CostSavingsCall(constants, baseline, ai_metrics) ==
    IF FirstMissing(SavingsLookups(baseline, ai_metrics), 1) # 0 THEN Raise("KeyError")
    ELSE IF RatioError(baseline, ai_metrics) # "none"
         THEN Raise(RatioError(baseline, ai_metrics))
    ELSE IF FirstMissing(ProcessingLookups(baseline, ai_metrics), 1) # 0
         THEN Raise("KeyError")
    ELSE Ok(SavingsBreakdown(constants, baseline, ai_metrics))

----------------------------------------------------------------------------
(* calculate_roi_analysis *)

\* payback_period_years: None, or a year
None == [some |-> FALSE, year |-> 0]
Some(y) == [some |-> TRUE, year |-> y]

\* lines 255-260: the sums of the stored ai_costs table, or 3e12 and 0.6e12
UpfrontCost(stored) ==
    IF "ai_costs" \in DOMAIN stored /\ ~Empty(stored["ai_costs"])
    THEN ColSum(stored["ai_costs"], "upfront_cost")
    ELSE Py(3000, 1)

AnnualMaintenance(stored) ==
    IF "ai_costs" \in DOMAIN stored /\ ~Empty(stored["ai_costs"])
    THEN ColSum(stored["ai_costs"], "annual_maintenance")
    ELSE Py(600, 1)

\* the literal 1.05
GrowthFactor == Py(21, 20)

\* Mutation of YearlySavings: the growth applied from the first year on
YearlySavings_GrowthInFirstYear(annual_savings, year) ==
    NMul(annual_savings, NPow(GrowthFactor, year))
\* annual_savings * (1.05 ** (year - 1))
YearlySavings(annual_savings, year) == NMul(annual_savings, NPow(GrowthFactor, year - 1))

NetYearlyBenefit(annual_savings, annual_maintenance, year) ==
    NSub(YearlySavings(annual_savings, year), annual_maintenance)

\* Mutation of CumulativeSavings: the yearly savings accumulated, not the net
RECURSIVE CumulativeSavings_WithoutCosts(_, _, _)
CumulativeSavings_WithoutCosts(annual_savings, annual_maintenance, year) ==
    IF year <= 0 THEN Zero
    ELSE NAdd(CumulativeSavings_WithoutCosts(annual_savings, annual_maintenance, year - 1),
              YearlySavings(annual_savings, year))

\* Mutation of CumulativeSavings: the running sum started below 0, at the
\* upfront cost of 3e12
RECURSIVE CumulativeSavings_UpfrontSubtracted(_, _, _)
CumulativeSavings_UpfrontSubtracted(annual_savings, annual_maintenance, year) ==
    IF year <= 0 THEN Py(-3000, 1)
    ELSE NAdd(CumulativeSavings_UpfrontSubtracted(annual_savings, annual_maintenance,
                                                  year - 1),
              NetYearlyBenefit(annual_savings, annual_maintenance, year))
\* cumulative_savings after the iteration of the given year (0 before the first)
RECURSIVE CumulativeSavings(_, _, _)
CumulativeSavings(annual_savings, annual_maintenance, year) ==
    IF year <= 0 THEN Zero
    ELSE NAdd(CumulativeSavings(annual_savings, annual_maintenance, year - 1),
              NetYearlyBenefit(annual_savings, annual_maintenance, year))

\* Mutation of RoiPercentage: the quotient without the guard on upfront_cost
RoiPercentage_Unguarded(cumulative_savings, upfront_cost) ==
    NMul(NDiv(cumulative_savings, upfront_cost), Py(100, 1))

\* (cumulative_savings / upfront_cost) * 100 if upfront_cost > 0 else 0
RoiPercentage(cumulative_savings, upfront_cost) ==
    IF NGt(upfront_cost, Zero)
    THEN NMul(NDiv(cumulative_savings, upfront_cost), Py(100, 1))
    ELSE Zero

\* the record appended for a year
YearRecord(annual_savings, upfront_cost, annual_maintenance, year) ==
    [year |-> year,
     savings |-> YearlySavings(annual_savings, year),
     costs |-> annual_maintenance,
     net_benefit |-> NetYearlyBenefit(annual_savings, annual_maintenance, year),
     cumulative_net |-> CumulativeSavings(annual_savings, annual_maintenance, year),
     roi_percentage |->
         RoiPercentage(CumulativeSavings(annual_savings, annual_maintenance, year),
                       upfront_cost)]

\* range(1, years + 1) is empty for years < 1
YearlyAnalysis(annual_savings, upfront_cost, annual_maintenance, years) ==
    [y \in 1..years |-> YearRecord(annual_savings, upfront_cost, annual_maintenance, y)]

\* lines 287-291: the year of the first record with cumulative_net >= 0
RECURSIVE PaybackFrom(_, _)
PaybackFrom(yearly_analysis, i) ==
    IF i > Len(yearly_analysis) THEN None
    ELSE IF NGe(yearly_analysis[i].cumulative_net, Zero) THEN Some(yearly_analysis[i].year)
    ELSE PaybackFrom(yearly_analysis, i + 1)

\* Mutation of PaybackYears: the loop without its break and its None test,
\* which keeps the last year with cumulative_net >= 0
RECURSIVE PaybackLastFrom(_, _)
PaybackLastFrom(yearly_analysis, i) ==
    IF i < 1 THEN None
    ELSE IF NGe(yearly_analysis[i].cumulative_net, Zero) THEN Some(yearly_analysis[i].year)
    ELSE PaybackLastFrom(yearly_analysis, i - 1)
PaybackYears_LastYear(yearly_analysis) ==
    PaybackLastFrom(yearly_analysis, Len(yearly_analysis))

PaybackYears(yearly_analysis) == PaybackFrom(yearly_analysis, 1)

\* Mutation of TotalInvestment: the maintenance of one year only
TotalInvestment_OneYear(upfront_cost, annual_maintenance, years) ==
    NAdd(upfront_cost, annual_maintenance)

\* line 299: upfront_cost + (annual_maintenance * years)
TotalInvestment(upfront_cost, annual_maintenance, years) ==
    NAdd(upfront_cost, NMul(annual_maintenance, Py(years, 1)))

RoiProjection(stored, annual_savings, years) ==
    LET upfront_cost == UpfrontCost(stored)
        annual_maintenance == AnnualMaintenance(stored)
        yearly_analysis ==
          YearlyAnalysis(annual_savings, upfront_cost, annual_maintenance, years)
        cumulative_savings == CumulativeSavings(annual_savings, annual_maintenance, years)
    IN  [yearly_analysis |-> yearly_analysis,
         total_roi_percentage |-> RoiPercentage(cumulative_savings, upfront_cost),
         payback_period_years |-> PaybackYears(yearly_analysis),
         total_investment |-> TotalInvestment(upfront_cost, annual_maintenance, years),
         total_savings |-> NAdd(cumulative_savings, upfront_cost),
         net_benefit |-> cumulative_savings]

RoiCall(stored, savings, years) ==
    IF "total_annual_savings" \notin DOMAIN savings THEN Raise("KeyError")
    ELSE Ok(RoiProjection(stored, savings["total_annual_savings"], years))

----------------------------------------------------------------------------
(* generate_analysis_report *)

\* the default of the parameter years of calculate_roi_analysis
DefaultYears == 5

\* the literal 1e12 (in 10^9 yen) and the literal 100
Trillion == Py(1000, 1)
Hundred == Py(100, 1)

\* Mutation of ReportSummary: the percentages taken from the default factors
ReportSummary_DefaultPercentages(improvements, savings, roi_analysis) ==
    [total_annual_savings_trillion_yen |->
         NDiv(savings["total_annual_savings"], Trillion),
     five_year_roi_percentage |-> roi_analysis.total_roi_percentage,
     payback_period_years |-> roi_analysis.payback_period_years,
     admin_time_reduction_percentage |->
         NMul(DefaultImprovements["admin_efficiency_gain"], Hundred),
     error_reduction_percentage |->
         NMul(DefaultImprovements["error_reduction"], Hundred),
     throughput_increase_percentage |->
         NMul(DefaultImprovements["throughput_increase"], Hundred)]
\* lines 325-332: the summary of a report
ReportSummary(improvements, savings, roi_analysis) ==
    [total_annual_savings_trillion_yen |->
         NDiv(savings["total_annual_savings"], Trillion),
     five_year_roi_percentage |-> roi_analysis.total_roi_percentage,
     payback_period_years |-> roi_analysis.payback_period_years,
     admin_time_reduction_percentage |->
         NMul(improvements["admin_efficiency_gain"], Hundred),
     error_reduction_percentage |-> NMul(improvements["error_reduction"], Hundred),
     throughput_increase_percentage |->
         NMul(improvements["throughput_increase"], Hundred)]

ReportSections == {"baseline_metrics", "ai_improved_metrics", "annual_savings",
                   "roi_analysis", "summary"}

\* Mutation of ReportOf: a failure of a later computation caught, and the
\* baseline returned as the report
ReportOf_PartialOnFailure(b, a, s, r, improvements) ==
    [res |-> IF r.ok
             THEN Ok([baseline_metrics |-> b.res.val,
                      ai_improved_metrics |-> a.val,
                      annual_savings |-> s.val,
                      roi_analysis |-> r.val,
                      summary |-> ReportSummary(improvements, s.val, r.val)])
             ELSE Ok([baseline_metrics |-> b.res.val]),
     stored |-> b.stored]

\* The call generate_analysis_report() on an analyzer whose self.data is
\* stored, with the data directory disk: load_data when nothing is stored,
\* then the four computations in order, the first exception leaving the
\* call.  stored is self.data afterwards.  b, a, s and r are what the four
\* computations returned or raised.
ReportOf(b, a, s, r, improvements) ==
    [res |-> IF r.ok
             THEN Ok([baseline_metrics |-> b.res.val,
                      ai_improved_metrics |-> a.val,
                      annual_savings |-> s.val,
                      roi_analysis |-> r.val,
                      summary |-> ReportSummary(improvements, s.val, r.val)])
             ELSE r,
     stored |-> b.stored]
ReportAfterSavings(b, a, s, improvements) ==
    ReportOf(b, a, s, IF s.ok THEN RoiCall(b.stored, s.val, DefaultYears) ELSE s,
             improvements)
ReportAfterImpact(b, a, improvements, constants) ==
    ReportAfterSavings(b, a,
                       IF a.ok THEN CostSavingsCall(constants, b.res.val, a.val) ELSE a,
                       improvements)
ReportAfterBaseline(b, improvements, constants) ==
    ReportAfterImpact([b EXCEPT !.res.val = BaselineAfterImpact(improvements, @)],
                      AiImpactCall(improvements, b.res.val), improvements, constants)
ReportCall(stored, improvements, constants, disk) ==
    ReportAfterBaseline(
        BaselineCall(IF DOMAIN stored = {} THEN LoadData(disk) ELSE stored,
                     constants, [given |-> FALSE, d |-> << >>], disk),
        improvements, constants)

----------------------------------------------------------------------------
(* The inputs callers pass *)

\* restriction and update of a mapping
Without(f, k) == [x \in DOMAIN f \ {k} |-> f[x]]
Update(f, g) == [x \in DOMAIN f \cup DOMAIN g |-> IF x \in DOMAIN g THEN g[x] ELSE f[x]]

\* the scenario of spec section 8 and of test_calculate_ai_impact_metrics
ScenarioFactors == [DefaultImprovements EXCEPT !.admin_efficiency_gain = Py(1, 2)]
\* no gain at all
ZeroFactors == [k \in FactorKeys |-> Zero]
\* an error reduction of 150 %: nothing checks the range of a factor
OverstatedFactors == [DefaultImprovements EXCEPT !.error_reduction = Py(3, 2)]
\* factor sets a caller may assign: complete ones, and the default set with
\* one key missing
FactorSets ==
    {DefaultImprovements, ScenarioFactors, ZeroFactors, OverstatedFactors}
        \cup {Without(DefaultImprovements, k) : k \in FactorKeys}

\* create_scenario_analysis: the conservative scenario's update
ConservativeUpdate ==
    [admin_efficiency_gain |-> Py(3, 10), processing_speed_gain |-> Py(1, 2),
     error_reduction |-> Py(1, 2), throughput_increase |-> Py(3, 20)]
FactorUpdates == {ConservativeUpdate}
\* create_sensitivity_analysis: the error-cost multiplier
CostMultipliers == {Py(2, 1)}

\* the baseline of the tests (native numbers; cost per patient 250000 yen)
TestBaseline ==
    [admin_hours_per_patient |-> Py(2, 1), processing_time_hours |-> Py(4, 1),
     billing_error_rate |-> Py(1, 40), patients_per_worker |-> Py(20, 1),
     cost_per_patient |-> Py(250, 1)]
\* baselines: the test's; one with an error rate of 0 and one of 1; one with
\* no patients per worker, native and as calculate_baseline_metrics computes
\* it from a patient table of zeros; the three
\* keys of test_calculate_cost_savings; and one with a key of the caller's
Baselines ==
    { TestBaseline,
      [TestBaseline EXCEPT !.billing_error_rate = Zero],
      [TestBaseline EXCEPT !.billing_error_rate = One],
      [TestBaseline EXCEPT !.patients_per_worker = Zero],
      [TestBaseline EXCEPT !.patients_per_worker = Np(0, 1)],
      Without(Without(TestBaseline, "cost_per_patient"), "processing_time_hours"),
      Update(TestBaseline, [region_count |-> Py(47, 1)]) }

\* improved sets passed to calculate_cost_savings: what the default factors
\* make of the complete baselines, the baseline itself, the three keys of
\* test_calculate_cost_savings, and a set worse than the baseline
AiMetricSets ==
    { ImprovedMetrics(DefaultImprovements, b) : b \in {x \in Baselines : MetricKeys \subseteq DOMAIN x} }
      \cup { TestBaseline,
             [admin_hours_per_patient |-> Py(1, 1), billing_error_rate |-> Py(3, 500),
              patients_per_worker |-> Py(122, 5)],
             [TestBaseline EXCEPT !.admin_hours_per_patient = Py(3, 1),
                                  !.patients_per_worker = Py(10, 1)] }

\* savings mappings passed to calculate_roi_analysis (10^9 yen)
SavingsValues == {-100, 0, 19, 20, 21, 500, 570, 580, 590, 630}
SavingsSets ==
    { [total_annual_savings |-> Py(v, 1)] : v \in SavingsValues } \cup {NoDict}

\* what callers assign to analyzer.data: nothing loaded, a loaded directory,
\* the mapping of generate_all_datasets (its costs table under another key)
GeneratedData ==
    [n \in (DatasetNames \ {"ai_costs"}) \cup {GeneratorCostsKey} |->
        IF n = GeneratorCostsKey THEN SampleData("ai_costs") ELSE CsvTable(n)]
\* tables of a period without patients: a patient table whose total is 0
ZeroPatientsData ==
    [n \in DatasetNames |->
        IF n = "patient_volume" THEN << PatRow(0, 1) >> ELSE CsvTable(n)]
\* the same tables without the workforce table
ZeroPatientsNoWorkforce == Without(ZeroPatientsData, "workforce")
AssignedData ==
    {NoDict, GeneratedData, ZeroPatientsData, ZeroPatientsNoWorkforce}
        \cup {LoadData(d) : d \in Disks}

\* data=None, or an input set
NoArg == [given |-> FALSE, d |-> NoDict]
BaselineArgs == {NoArg} \cup {[given |-> TRUE, d |-> x] : x \in InputSets}

----------------------------------------------------------------------------
(* utils/config.py: DEFAULT_CONFIG, load_config, save_config, and the      *)
(* callers that obtain a configuration and change it                       *)

\* the sections of DEFAULT_CONFIG that hold the factors and the constants
SectionOrder == << "ai_improvements", "japan_constants" >>

\* the literals of DEFAULT_CONFIG, section by section (people in 10^6)
DefaultSettings ==
    [ai_improvements |-> DefaultImprovements,
     japan_constants |->
         Update(DefaultConstants, [total_population |-> Py(125, 1),
                                   healthcare_recipients |-> Py(47, 1)])]

\* the mappings of the module after import: the two nested mappings, and
\* DEFAULT_CONFIG, whose entries are references to them
ModuleDicts ==
    << DefaultSettings.ai_improvements, DefaultSettings.japan_constants,
       [ai_improvements |-> 1, japan_constants |-> 2] >>
DEFAULT_CONFIG == 3

\* what a configuration holds, section by section
Content(heap, config) == [s \in DOMAIN heap[config] |-> heap[heap[config][s]]]

\* the file at config_path: not there, not a JSON object, or a JSON object
NoFile == [st |-> "absent", content |-> NoDict]
InvalidFile == [st |-> "invalid", content |-> NoDict]
JsonFile(content) == [st |-> "ok", content |-> content]
\* the files a user writes: an invalid one, and one with the factors of the
\* conservative scenario
UserFiles == {InvalidFile, JsonFile([ai_improvements |-> ConservativeUpdate])}

\* config.update(user_config) from the i-th section on: a section of the
\* file is a mapping json.load has made, and replaces the entry of config
RECURSIVE ConfigUpdated(_, _, _, _)
ConfigUpdated(heap, config, user_config, i) ==
    IF i > Len(SectionOrder) THEN heap
    ELSE IF SectionOrder[i] \notin DOMAIN user_config
    THEN ConfigUpdated(heap, config, user_config, i + 1)
    ELSE ConfigUpdated(
             [Append(heap, user_config[SectionOrder[i]])
                 EXCEPT ![config] = Assigned(@, SectionOrder[i], Len(heap) + 1)],
             config, user_config, i + 1)

\* load_config(config_path): DEFAULT_CONFIG.copy(), updated with the file's
\* content if a path is given and the file can be read
LoadConfigCall(heap, with_path, file) ==
    LET copied == MappingCopy(heap, DEFAULT_CONFIG)
    IN  IF with_path /\ file.st = "ok"
        THEN [heap |-> ConfigUpdated(copied.heap, copied.ref, file.content, 1),
              ref |-> copied.ref]
        ELSE copied

\* config[section][key] = value for the entries from the i-th on
RECURSIVE EntriesAssigned(_, _, _, _)
EntriesAssigned(heap, config, entries, i) ==
    IF i > Len(entries) THEN heap
    ELSE EntriesAssigned(
             [heap EXCEPT ![heap[config][entries[i][1]]] =
                  Assigned(@, entries[i][2], entries[i][3])],
             config, entries, i + 1)

\* create_custom_config: the entries it assigns (the wage in 10^3 yen)
CustomEntries ==
    << <<"ai_improvements", "admin_efficiency_gain", Py(2, 5)>>,
       <<"ai_improvements", "processing_speed_gain", Py(3, 5)>>,
       <<"ai_improvements", "error_reduction", Py(13, 20)>>,
       <<"ai_improvements", "throughput_increase", Py(1, 5)>>,
       <<"japan_constants", "total_healthcare_cost", Py(48000, 1)>>,
       <<"japan_constants", "average_hourly_wage", Py(7, 2)>> >>
CreateCustomConfigCall(heap) ==
    LET copied == MappingCopy(heap, DEFAULT_CONFIG)
    IN  [heap |-> EntriesAssigned(copied.heap, copied.ref, CustomEntries, 1),
         ref |-> copied.ref]

\* entries a caller assigns in a configuration it holds
CallerEntries ==
    { <<"ai_improvements", "cost_reduction", Py(1, 10)>>,
      <<"japan_constants", "error_cost_multiplier", Py(2, 1)>> }

\* a configuration a caller holds: the mapping, how it was obtained, and
\* what it held when it was returned
Obtained(r, by) == [ref |-> r.ref, by |-> by, returned |-> Content(r.heap, r.ref)]

----------------------------------------------------------------------------
(* The state machine: one analyzer and its caller.  last is the call the   *)
(* caller made last, with its arguments and what it returned or raised,    *)
(* until the caller goes on (Continue).                                    *)

Idle == [op |-> "idle"]

\* The analyzers of a scenario sweep.  Each has its own thread of control:
\* pc is where it stands in generate_analysis_report, part what that call
\* has computed so far, run what the call started from.
Analyzers == {"first", "second"}

NoPart == [baseline |-> NoDict, ai_metrics |-> NoDict, savings |-> NoDict]
\* input: the tables the run was given (assigned ones, or those of the data
\* directory); overlapped: another analyzer was overridden while the run was
\* under way
NoRun == [who |-> "none", input |-> NoDict, factors |-> NoDict,
          constants |-> NoDict, overlapped |-> FALSE, res |-> Raise("none")]

\* Mutation of FactorsObject: one default mapping for all analyzers
FactorsObject_OneDefault(heap) == 1
\* __init__: the dict displays make new objects, here their places on the heap
FactorsObject(heap) == Len(heap) + 1
ConstantsObject(heap) == Len(heap) + 2
\* HealthcareProductivityAnalyzer() with the heap as it finds it: the heap
\* afterwards and the analyzer.  ai_improvements and japan_constants are
\* references to objects of the heap; own_factors and own_constants are
\* what the analyzer's own operations made of them.
HeapAfter(heap) == heap \o << DefaultImprovements, DefaultConstants >>
Constructed(heap) ==
    [ai_improvements |-> FactorsObject(heap), japan_constants |-> ConstantsObject(heap),
     data |-> NoDict, own_factors |-> DefaultImprovements,
     own_constants |-> DefaultConstants,
     pc |-> "idle", part |-> NoPart, run |-> NoRun]


\* analyzer = HealthcareProductivityAnalyzer(), and the analyzers of the
\* sweep constructed one after the other
Init ==
    /\ data = NoDict
    /\ ai_improvements = DefaultImprovements
    /\ japan_constants = DefaultConstants
    /\ last = Idle
    /\ objs = HeapAfter(HeapAfter(<< >>))
    /\ fleet = [a \in Analyzers |->
                   IF a = "first" THEN Constructed(<< >>)
                   ELSE Constructed(HeapAfter(<< >>))]
    /\ started = 0
    /\ first_run = NoRun
    /\ last_run = NoRun
    /\ rng = 2
    /\ dicts = ModuleDicts
    /\ configs = << >>
    /\ config_file = NoFile

\* baseline = analyzer.calculate_baseline_metrics(arg); the data directory
\* is read only when load_data runs
CallBaselineMetrics ==
    /\ last = Idle
    /\ \E arg \in BaselineArgs :
         \E disk \in IF Loads(data, arg) THEN Disks ELSE {NoDisk} :
           \E c \in {BaselineCall(data, japan_constants, arg, disk)} :
             /\ data' = c.stored
             /\ last' = [op |-> "calculate_baseline_metrics", arg |-> arg,
                         disk |-> disk, before |-> data, used |-> c.used,
                         loads |-> c.loads, res |-> c.res]
    /\ UNCHANGED <<ai_improvements, japan_constants, sweep, settings>>

\* ai_metrics = analyzer.calculate_ai_impact_metrics(baseline)
CallAiImpactMetrics ==
    /\ last = Idle
    /\ \E baseline \in Baselines :
         last' = [op |-> "calculate_ai_impact_metrics", baseline |-> baseline,
                  objects |-> ImpactObjects(ai_improvements, baseline),
                  res |-> AiImpactCall(ai_improvements, baseline)]
    /\ UNCHANGED <<data, ai_improvements, japan_constants, sweep, settings>>

\* savings = analyzer.calculate_cost_savings(baseline, ai_metrics)
CallCostSavings ==
    /\ last = Idle
    /\ \E baseline \in Baselines, ai_metrics \in AiMetricSets :
         last' = [op |-> "calculate_cost_savings", baseline |-> baseline,
                  ai_metrics |-> ai_metrics,
                  res |-> CostSavingsCall(japan_constants, baseline, ai_metrics)]
    /\ UNCHANGED <<data, ai_improvements, japan_constants, sweep, settings>>

\* roi = analyzer.calculate_roi_analysis(savings, years)
CallRoiAnalysis ==
    /\ last = Idle
    /\ \E savings \in SavingsSets, years \in 0..MaxYears :
         last' = [op |-> "calculate_roi_analysis", savings |-> savings, years |-> years,
                  res |-> RoiCall(data, savings, years)]
    /\ UNCHANGED <<data, ai_improvements, japan_constants, sweep, settings>>

\* analyzer.load_data()
CallLoadData ==
    /\ last = Idle
    /\ \E disk \in Disks :
         /\ data' = LoadData(disk)
         /\ last' = [op |-> "load_data", disk |-> disk, res |-> Ok(LoadData(disk))]
    /\ UNCHANGED <<ai_improvements, japan_constants, sweep, settings>>

\* report = analyzer.generate_analysis_report(); the data directory is read
\* only when load_data runs
CallGenerateReport ==
    /\ last = Idle
    /\ \E disk \in IF DOMAIN data = {} THEN Disks ELSE {NoDisk} :
         \E c \in {ReportCall(data, ai_improvements, japan_constants, disk)} :
           /\ data' = c.stored
           /\ last' = [op |-> "generate_analysis_report", disk |-> disk,
                       before |-> data, res |-> c.res]
    /\ UNCHANGED <<ai_improvements, japan_constants, sweep, settings>>

\* analyzer.data = datasets
AssignData ==
    /\ last = Idle
    /\ \E d \in AssignedData : data' = d
    /\ UNCHANGED <<ai_improvements, japan_constants, last, sweep, settings>>

\* analyzer.ai_improvements = factors
AssignImprovements ==
    /\ last = Idle
    /\ \E f \in FactorSets : ai_improvements' = f
    /\ UNCHANGED <<data, japan_constants, last, sweep, settings>>

\* analyzer.ai_improvements.update({...}), analyzer.ai_improvements[k] = v
UpdateImprovements ==
    /\ last = Idle
    /\ \E u \in FactorUpdates : ai_improvements' = Update(ai_improvements, u)
    /\ UNCHANGED <<data, japan_constants, last, sweep, settings>>

\* analyzer.japan_constants['error_cost_multiplier'] = cost_mult
SetCostMultiplier ==
    /\ last = Idle
    /\ \E m \in CostMultipliers :
         japan_constants' = [japan_constants EXCEPT !["error_cost_multiplier"] = m]
    /\ UNCHANGED <<data, ai_improvements, last, sweep, settings>>

\* the caller is done with the result
Continue ==
    /\ last # Idle
    /\ last' = Idle
    /\ UNCHANGED <<data, ai_improvements, japan_constants, sweep, settings>>

Next ==
    \/ CallBaselineMetrics
    \/ CallAiImpactMetrics
    \/ CallCostSavings
    \/ CallRoiAnalysis
    \/ CallLoadData
    \/ CallGenerateReport
    \/ AssignData
    \/ AssignImprovements
    \/ UpdateImprovements
    \/ SetCostMultiplier
    \/ Continue

Spec == Init /\ [][Next]_vars

----------------------------------------------------------------------------
(* The scenario sweep: analyzers constructed, overridden and run side by   *)
(* side.  A step is one statement of the caller or one method call of      *)
(* generate_analysis_report; the steps of different analyzers interleave.  *)

\* the data directory of the sweep
FleetDisks == {NoDisk}

\* the other analyzers' runs under way see that an override happened
Overridden(a, mine) ==
    [b \in Analyzers |->
        IF b = a THEN mine
        ELSE IF fleet[b].pc # "idle"
             THEN [fleet[b] EXCEPT !.run = [@ EXCEPT !.overlapped = TRUE]]
             ELSE fleet[b]]

\* the run of analyzer a ends, returning or raising res
Ends(a, me, res) ==
    \E rec \in {[me.run EXCEPT !.res = res]} :
        /\ fleet' = [fleet EXCEPT ![a] = [me EXCEPT !.pc = "idle", !.part = NoPart,
                                                    !.run = NoRun]]
        /\ first_run' = IF first_run = NoRun THEN rec ELSE first_run
        /\ last_run' = IF first_run = NoRun THEN last_run ELSE rec

\* analyzer.ai_improvements.update({...}): the object is changed in place
FleetUpdateImprovements ==
    \E a \in Analyzers, u \in FactorUpdates :
      /\ fleet[a].pc = "idle"
      /\ objs' = [objs EXCEPT ![fleet[a].ai_improvements] = Update(@, u)]
      /\ fleet' = Overridden(a, [fleet[a] EXCEPT !.own_factors = Update(@, u)])
      /\ UNCHANGED <<single, settings, started, first_run, last_run, rng>>

\* analyzer.japan_constants['error_cost_multiplier'] = cost_mult
FleetSetCostMultiplier ==
    \E a \in Analyzers, m \in CostMultipliers :
      /\ fleet[a].pc = "idle"
      /\ objs' = [objs EXCEPT ![fleet[a].japan_constants] =
                     [@ EXCEPT !["error_cost_multiplier"] = m]]
      /\ fleet' = Overridden(a, [fleet[a] EXCEPT !.own_constants =
                                    [@ EXCEPT !["error_cost_multiplier"] = m]])
      /\ UNCHANGED <<single, settings, started, first_run, last_run, rng>>

\* generate_analysis_report, to the end of calculate_baseline_metrics
RunBaseline ==
    \E a \in Analyzers :
      LET me == fleet[a]
          loads == DOMAIN me.data = {}
      IN  /\ me.pc = "idle" /\ started < MaxRuns
          /\ started' = started + 1
          /\ \E disk \in IF loads THEN FleetDisks ELSE {NoDisk} :
             \E held \in {IF loads THEN LoadDataFrom(disk, rng) ELSE me.data} :
             \E b \in {BaselineCall(held, objs[me.japan_constants], NoArg, NoDisk)} :
               LET begun ==
                       [me EXCEPT !.data = b.stored,
                                  !.run = [who |-> a,
                                           input |-> IF loads THEN LoadData(disk)
                                                     ELSE me.data,
                                           factors |-> objs[me.ai_improvements],
                                           constants |-> objs[me.japan_constants],
                                           overlapped |-> FALSE,
                                           res |-> Raise("none")]]
               IN  /\ rng' = IF loads THEN StateAfterLoad(disk, rng) ELSE rng
                   /\ IF b.res.ok
                      THEN /\ fleet' = [fleet EXCEPT ![a] =
                                          [begun EXCEPT !.pc = "impact",
                                                        !.part = [NoPart EXCEPT
                                                            !.baseline = b.res.val]]]
                           /\ UNCHANGED <<first_run, last_run>>
                      ELSE Ends(a, begun, b.res)
          /\ UNCHANGED <<single, settings, objs>>

\* ai_metrics = self.calculate_ai_impact_metrics(baseline)
RunAiImpact ==
    \E a \in Analyzers :
      LET me == fleet[a]
      IN  /\ me.pc = "impact"
          /\ \E r \in {AiImpactCall(objs[me.ai_improvements], me.part.baseline)} :
             IF r.ok
             THEN /\ fleet' = [fleet EXCEPT ![a] =
                                 [me EXCEPT !.pc = "savings",
                                            !.part = [@ EXCEPT !.ai_metrics = r.val]]]
                  /\ UNCHANGED <<first_run, last_run>>
             ELSE Ends(a, me, r)
          /\ UNCHANGED <<single, settings, objs, started, rng>>

\* savings = self.calculate_cost_savings(baseline, ai_metrics)
RunCostSavings ==
    \E a \in Analyzers :
      LET me == fleet[a]
      IN  /\ me.pc = "savings"
          /\ \E r \in {CostSavingsCall(objs[me.japan_constants], me.part.baseline,
                                       me.part.ai_metrics)} :
             IF r.ok
             THEN /\ fleet' = [fleet EXCEPT ![a] =
                                 [me EXCEPT !.pc = "roi",
                                            !.part = [@ EXCEPT !.savings = r.val]]]
                  /\ UNCHANGED <<first_run, last_run>>
             ELSE Ends(a, me, r)
          /\ UNCHANGED <<single, settings, objs, started, rng>>

\* roi_analysis = self.calculate_roi_analysis(savings), and the report
RunReport ==
    \E a \in Analyzers :
      LET me == fleet[a]
      IN  /\ me.pc = "roi"
          /\ \E r \in {RoiCall(me.data, me.part.savings, DefaultYears)} :
             Ends(a, me,
                  IF r.ok
                  THEN Ok([baseline_metrics |-> me.part.baseline,
                           ai_improved_metrics |-> me.part.ai_metrics,
                           annual_savings |-> me.part.savings,
                           roi_analysis |-> r.val,
                           summary |-> ReportSummary(objs[me.ai_improvements],
                                                     me.part.savings, r.val)])
                  ELSE r)
          /\ UNCHANGED <<single, settings, objs, started, rng>>

FleetNext ==
    \/ FleetUpdateImprovements
    \/ FleetSetCostMultiplier
    \/ RunBaseline
    \/ RunAiImpact
    \/ RunCostSavings
    \/ RunReport

FleetSpec == Init /\ [][FleetNext]_vars

----------------------------------------------------------------------------
(* The callers of utils/config.py *)

\* config = load_config() or load_config(config_path)
ConfigLoad ==
    /\ Len(configs) < MaxConfigs
    /\ \E with_path \in BOOLEAN :
         \E r \in {LoadConfigCall(dicts, with_path, config_file)} :
           /\ dicts' = r.heap
           /\ configs' = Append(configs,
                                Obtained(r, IF with_path THEN "load_config(config_path)"
                                            ELSE "load_config()"))
    /\ UNCHANGED <<single, sweep, config_file>>

\* config = create_custom_config()
CreateCustomConfig ==
    /\ Len(configs) < MaxConfigs
    /\ \E r \in {CreateCustomConfigCall(dicts)} :
         /\ dicts' = r.heap
         /\ configs' = Append(configs, Obtained(r, "create_custom_config"))
    /\ UNCHANGED <<single, sweep, config_file>>

\* config[section][key] = value in a configuration obtained earlier
ConfigSetEntry ==
    /\ \E i \in DOMAIN configs, entry \in CallerEntries :
         dicts' = EntriesAssigned(dicts, configs[i].ref, << entry >>, 1)
    /\ UNCHANGED <<single, sweep, configs, config_file>>

\* save_config(config, config_path): json.dump writes the sections by value;
\* a path that cannot be written leaves the file as it is
ConfigSave ==
    /\ \E i \in DOMAIN configs, written \in BOOLEAN :
         config_file' = IF written THEN JsonFile(Content(dicts, configs[i].ref))
                        ELSE config_file
    /\ UNCHANGED <<single, sweep, dicts, configs>>

\* the user writes the file at config_path
ConfigEditFile ==
    /\ \E file \in UserFiles : config_file' = file
    /\ UNCHANGED <<single, sweep, dicts, configs>>

ConfigNext ==
    \/ ConfigLoad
    \/ CreateCustomConfig
    \/ ConfigSetEntry
    \/ ConfigSave
    \/ ConfigEditFile

ConfigSpec == Init /\ [][ConfigNext]_vars

----------------------------------------------------------------------------
(* Properties *)

\* the same number: the same rational, the same infinity, or NaN both
SameValue(a, b) == a.k = b.k /\ a.n = b.n /\ a.d = b.d

Returned(op) == last.op = op /\ last.res.ok
Raised(op) == last.op = op /\ ~last.res.ok

\* C1: for a horizon of at least one year, payback_period_years is the
\* smallest year whose record has cumulative_net >= 0, no earlier year has
\* one, and it is None exactly when no year of the horizon has one.
C1_PaybackIsFirstNonNegativeYear ==
    (Returned("calculate_roi_analysis") /\ last.years >= 1) =>
        LET r == last.res.val
            nonneg(y) == NGe(r.yearly_analysis[y].cumulative_net, Zero)
            pb == r.payback_period_years
        IN  /\ Len(r.yearly_analysis) = last.years
            /\ \A y \in 1..last.years : r.yearly_analysis[y].year = y
            /\ pb.some => /\ pb.year \in 1..last.years
                          /\ nonneg(pb.year)
                          /\ \A y \in 1..(pb.year - 1) : ~nonneg(y)
            /\ ~pb.some <=> \A y \in 1..last.years : ~nonneg(y)

\* C1 witness: a projection that pays back in its third year or later, with
\* a year after the payback year
C1_Witness ==
    /\ Returned("calculate_roi_analysis")
    /\ last.res.val.payback_period_years.some
    /\ last.res.val.payback_period_years.year >= 3
    /\ last.res.val.payback_period_years.year < last.years

\* C2: with an upfront cost of 0 the call does not fail on a division, and
\* every year's roi_percentage and the total_roi_percentage are 0.
C2_ZeroUpfrontCostGivesZeroRoi ==
    (last.op = "calculate_roi_analysis" /\ IsZero(UpfrontCost(data))) =>
        /\ last.res.err # "ZeroDivisionError"
        /\ "total_annual_savings" \in DOMAIN last.savings => last.res.ok
        /\ last.res.ok =>
             /\ \A y \in 1..last.years :
                  last.res.val.yearly_analysis[y].roi_percentage = Zero
             /\ last.res.val.total_roi_percentage = Zero

\* C2 witness: a projection over several years with an upfront cost of 0 and
\* a cumulative net that is not 0
C2_Witness ==
    /\ Returned("calculate_roi_analysis")
    /\ IsZero(UpfrontCost(data))
    /\ last.years >= 2
    /\ ~IsZero(last.res.val.net_benefit)

\* C3: total_annual_savings of a returned breakdown is the sum of its four
\* categories.
C3_TotalIsSumOfCategories ==
    Returned("calculate_cost_savings") =>
        LET v == last.res.val IN
        SameValue(v.total_annual_savings,
                  NAdd(NAdd(v.admin_labor_savings, v.error_cost_savings),
                       NAdd(v.additional_revenue, v.processing_efficiency_savings)))

\* C3 witness: a breakdown whose four categories are all finite and not 0
C3_Witness ==
    /\ Returned("calculate_cost_savings")
    /\ \A k \in {"admin_labor_savings", "error_cost_savings", "additional_revenue",
                 "processing_efficiency_savings"} :
         IsFin(last.res.val[k]) /\ ~IsZero(last.res.val[k])

\* C4: the improved metrics are baseline * (1 - gain) for admin hours,
\* processing time, error rate and cost per patient and baseline * (1 + gain)
\* for patients per worker; for a positive baseline and gains strictly
\* between 0 and 1 the first four are smaller and the last is larger.
C4_ImprovedMetricsFollowFactors ==
    Returned("calculate_ai_impact_metrics") =>
        LET b == last.baseline
            f == ai_improvements
            r == last.res.val
            lower == << <<"admin_hours_per_patient", "admin_efficiency_gain">>,
                        <<"processing_time_hours", "processing_speed_gain">>,
                        <<"billing_error_rate", "error_reduction">>,
                        <<"cost_per_patient", "cost_reduction">> >>
            upw == "patients_per_worker"
        IN  /\ \A i \in 1..4 :
                 SameValue(r[lower[i][1]],
                           NSub(b[lower[i][1]], NMul(b[lower[i][1]], f[lower[i][2]])))
            /\ SameValue(r[upw], NAdd(b[upw], NMul(b[upw], f["throughput_increase"])))
            /\ ( /\ \A k \in MetricKeys : NGt(b[k], Zero)
                 /\ \A g \in FactorKeys : NGt(f[g], Zero) /\ NLt(f[g], One) )
               => /\ \A i \in 1..4 : NLt(r[lower[i][1]], b[lower[i][1]])
                  /\ NGt(r[upw], b[upw])

\* C4 witness: the scenario 2.0, 0.025, 20 with gains 0.5, 0.76, 0.24 gives
\* 1.0, 0.006 and 24.8
C4_Witness ==
    /\ Returned("calculate_ai_impact_metrics")
    /\ last.baseline = TestBaseline
    /\ ai_improvements = ScenarioFactors
    /\ SameValue(last.res.val["admin_hours_per_patient"], Py(1, 1))
    /\ SameValue(last.res.val["billing_error_rate"], Py(6, 1000))
    /\ SameValue(last.res.val["patients_per_worker"], Py(248, 10))

\* an error rate in [0, 1] and an error reduction in [0, 1)
C5_Valid ==
    /\ Returned("calculate_ai_impact_metrics")
    /\ NGe(last.baseline["billing_error_rate"], Zero)
    /\ NLe(last.baseline["billing_error_rate"], One)
    /\ NGe(ai_improvements["error_reduction"], Zero)
    /\ NLt(ai_improvements["error_reduction"], One)

\* C5 as stated: the improved error rate is at most the baseline's, and they
\* are equal only when error_reduction = 0.
C5_EqualOnlyWithoutReduction ==
    C5_Valid =>
        /\ NLe(last.res.val["billing_error_rate"], last.baseline["billing_error_rate"])
        /\ NEq(last.res.val["billing_error_rate"], last.baseline["billing_error_rate"])
             => IsZero(ai_improvements["error_reduction"])

\* C5, amended: the improved error rate is at most the baseline's, and they
\* are equal only when error_reduction = 0 or the baseline error rate is 0.
C5_EqualOnlyWithoutReductionOrErrors ==
    C5_Valid =>
        /\ NLe(last.res.val["billing_error_rate"], last.baseline["billing_error_rate"])
        /\ NEq(last.res.val["billing_error_rate"], last.baseline["billing_error_rate"])
             => \/ IsZero(ai_improvements["error_reduction"])
                \/ IsZero(last.baseline["billing_error_rate"])

\* C5 witness: a positive error rate left as it is by an error reduction of 0
C5_Witness ==
    /\ C5_Valid
    /\ NGt(last.baseline["billing_error_rate"], Zero)
    /\ IsZero(ai_improvements["error_reduction"])
    /\ NEq(last.res.val["billing_error_rate"], last.baseline["billing_error_rate"])

\* C6 as stated: with a baseline patients-per-worker of zero (and every key
\* the computation reads present) calculate_cost_savings fails with a
\* DataError and returns no breakdown.
C6_ZeroThroughputRaisesDataError ==
    ( /\ last.op = "calculate_cost_savings"
      /\ MetricKeys \subseteq DOMAIN last.baseline
      /\ MetricKeys \subseteq DOMAIN last.ai_metrics
      /\ IsZero(last.baseline["patients_per_worker"]) )
    => (~last.res.ok /\ last.res.err = "DataError")

\* C7 as stated: with one of the five factor keys missing (and a complete
\* baseline) calculate_ai_impact_metrics fails with a DataError and returns
\* no improved metrics.
C7_MissingFactorRaisesDataError ==
    ( /\ last.op = "calculate_ai_impact_metrics"
      /\ MetricKeys \subseteq DOMAIN last.baseline
      /\ ~(FactorKeys \subseteq DOMAIN ai_improvements) )
    => (~last.res.ok /\ last.res.err = "DataError")

\* the input set of a call of calculate_baseline_metrics: its argument, or
\* self.data as it was when data was not given
InputSet == Given(last.before, last.arg)
WorkforceInput == Get(InputSet, "workforce")
PatientsInput == Get(InputSet, "patient_volume")
ExpenditureInput == Get(InputSet, "medical_expenditure")

\* 45e12 / 47000000
ConstantRatio == NDiv(Py(45000, 1), Py(47, 1))

\* C8 as stated: patients per worker is (sum of patients) / (sum of workers)
\* when the workforce and the patient table of the input set are both
\* non-empty and the worker sum is > 0, and 20 in every other case (a table
\* empty or missing, or a worker sum <= 0); the call does not raise, and the
\* value is never infinite or NaN.
C8_PatientsPerWorkerGuarded ==
    last.op = "calculate_baseline_metrics" =>
        /\ last.res.ok
        /\ IsFin(last.res.val["patients_per_worker"])
        /\ SameValue(last.res.val["patients_per_worker"],
                     IF /\ ~Empty(WorkforceInput) /\ ~Empty(PatientsInput)
                        /\ NGt(ColSum(WorkforceInput, "total_workers"), Zero)
                     THEN NDiv(ColSum(PatientsInput, "total_patients"),
                               ColSum(WorkforceInput, "total_workers"))
                     ELSE Py(20, 1))

\* C9 as stated: cost per patient is (first-row total expenditure) / (sum of
\* patients) when the expenditure and the patient table of the input set are
\* both there, and 45e12 / 47000000 whenever either is missing or empty.
C9_ConstantRatioUnlessBothTables ==
    last.op = "calculate_baseline_metrics" =>
        SameValue(last.res.val["cost_per_patient"],
                  IF ~Empty(ExpenditureInput) /\ ~Empty(PatientsInput)
                  THEN NDiv(ExpenditureInput[1]["total_expenditure"],
                            ColSum(PatientsInput, "total_patients"))
                  ELSE ConstantRatio)

\* C10 as stated: whatever tables of the input set are missing or empty, the
\* call returns the five metrics, those of a missing or empty table being
\* its fallback constants: 2.0, 4.0 and 0.025 without the administrative
\* table, 20 without the workforce or the patient table, 45e12 / 47000000
\* without the expenditure table.
C10_MissingTablesUseFallbackConstants ==
    last.op = "calculate_baseline_metrics" =>
        /\ last.res.ok
        /\ DOMAIN last.res.val = MetricKeys
        /\ Empty(Get(InputSet, "administrative_costs")) =>
             /\ SameValue(last.res.val["admin_hours_per_patient"], Py(2, 1))
             /\ SameValue(last.res.val["processing_time_hours"], Py(4, 1))
             /\ SameValue(last.res.val["billing_error_rate"], Py(25, 1000))
        /\ (Empty(WorkforceInput) \/ Empty(PatientsInput))
             => SameValue(last.res.val["patients_per_worker"], Py(20, 1))
        /\ Empty(ExpenditureInput)
             => SameValue(last.res.val["cost_per_patient"], ConstantRatio)

\* every value of a mapping of numbers is finite
AllFinite(m) == \A k \in DOMAIN m : IsFin(m[k])

\* every number of a projection is finite
ProjectionFinite(r) ==
    /\ \A y \in DOMAIN r.yearly_analysis :
         \A k \in {"savings", "costs", "net_benefit", "cumulative_net", "roi_percentage"} :
           IsFin(r.yearly_analysis[y][k])
    /\ \A k \in {"total_roi_percentage", "total_investment", "total_savings", "net_benefit"} :
         IsFin(r[k])

\* C11 as stated: a run of the pipeline that returns a report returns finite
\* numbers only, in the baseline, the improved metrics, the savings and the
\* projection; a run that cannot fails with an error.
C11_PipelineNumbersFinite ==
    Returned("generate_analysis_report") =>
        /\ AllFinite(last.res.val.baseline_metrics)
        /\ AllFinite(last.res.val.ai_improved_metrics)
        /\ AllFinite(last.res.val.annual_savings)
        /\ ProjectionFinite(last.res.val.roi_analysis)

\* C12 as stated: a horizon below 1 (with a savings mapping that holds
\* total_annual_savings) is rejected with a ConfigurationError; no projection
\* (such as one with an empty yearly series) is returned.
C12_InvalidHorizonRejected ==
    ( /\ last.op = "calculate_roi_analysis"
      /\ "total_annual_savings" \in DOMAIN last.savings
      /\ last.years < 1 )
    => (~last.res.ok /\ last.res.err = "ConfigurationError")

\* improved better than baseline on the three metrics of the test
BetterOnThree(baseline, ai_metrics) ==
    /\ {"admin_hours_per_patient", "billing_error_rate", "patients_per_worker"}
         \subseteq (DOMAIN baseline \cap DOMAIN ai_metrics)
    /\ NLt(ai_metrics["admin_hours_per_patient"], baseline["admin_hours_per_patient"])
    /\ NLt(ai_metrics["billing_error_rate"], baseline["billing_error_rate"])
    /\ NGt(ai_metrics["patients_per_worker"], baseline["patients_per_worker"])

\* C16 as stated: for a baseline and an improved set that each hold admin
\* hours, error rate and patients per worker, the improved one better on
\* each, calculate_cost_savings returns a breakdown with admin_labor_savings,
\* error_cost_savings, additional_revenue and total_annual_savings, every
\* value of it > 0.
C16_ThreeMetricsGivePositiveSavings ==
    (last.op = "calculate_cost_savings" /\ BetterOnThree(last.baseline, last.ai_metrics)) =>
        /\ last.res.ok
        /\ {"admin_labor_savings", "error_cost_savings", "additional_revenue",
            "total_annual_savings"} \subseteq DOMAIN last.res.val
        /\ \A k \in DOMAIN last.res.val : NGt(last.res.val[k], Zero)

\* C17: load_data returns the five datasets, the table of every dataset
\* whose file is absent or whose read raises is not empty, and self.data is
\* the mapping returned.
C17_LoadDataFallsBackToSamples ==
    last.op = "load_data" =>
        /\ last.res.ok
        /\ DOMAIN last.res.val = DatasetNames
        /\ \A n \in DatasetNames : last.disk[n].st # "ok" => ~Empty(last.res.val[n])
        /\ data = last.res.val

\* C17 witness: a load with one file absent and the read of another raising
C17_Witness ==
    /\ Returned("load_data")
    /\ \E n \in DatasetNames : last.disk[n].st = "absent"
    /\ \E n \in DatasetNames : last.disk[n].st = "raises" /\ ~Empty(data[n])

\* the yearly net benefit is >= 0 in every year of a projection
NetNeverNegative(r) ==
    \A y \in DOMAIN r.yearly_analysis : NGe(r.yearly_analysis[y].net_benefit, Zero)

\* C18 as stated: the series cumulative_net of the years 1..N is
\* non-decreasing if and only if net_benefit >= 0 in every year 1..N.
C18_MonotoneIffNetNeverNegative ==
    (Returned("calculate_roi_analysis") /\ last.years >= 1) =>
        LET r == last.res.val IN
        (\A y \in 2..last.years :
            NLe(r.yearly_analysis[y - 1].cumulative_net, r.yearly_analysis[y].cumulative_net))
        <=> NetNeverNegative(r)

\* C18, amended: the series cumulative_net taken from its initial value 0
\* before year 1 through the years 1..N is non-decreasing if and only if
\* net_benefit >= 0 in every year 1..N.
C18_MonotoneFromZeroIffNetNeverNegative ==
    (Returned("calculate_roi_analysis") /\ last.years >= 1) =>
        LET r == last.res.val
            cumulative(y) == IF y = 0 THEN Zero ELSE r.yearly_analysis[y].cumulative_net
        IN  (\A y \in 1..last.years : NLe(cumulative(y - 1), cumulative(y)))
            <=> NetNeverNegative(r)

\* C18 witness: a projection whose first year has a negative net benefit and
\* whose later years have none
C18_Witness ==
    /\ Returned("calculate_roi_analysis")
    /\ last.years >= 3
    /\ NLt(last.res.val.yearly_analysis[1].net_benefit, Zero)
    /\ \A y \in 2..last.years : NGt(last.res.val.yearly_analysis[y].net_benefit, Zero)

\* C19: for a horizon of at least one year, net_benefit is the last year's
\* cumulative_net, total_roi_percentage the last year's roi_percentage, and
\* total_investment is upfront cost + annual maintenance * years.
C19_TerminalScalarsAgree ==
    (Returned("calculate_roi_analysis") /\ last.years >= 1) =>
        LET r == last.res.val
            final == r.yearly_analysis[last.years]
        IN  /\ SameValue(r.net_benefit, final.cumulative_net)
            /\ SameValue(r.total_roi_percentage, final.roi_percentage)
            /\ SameValue(r.total_investment,
                         NAdd(UpfrontCost(data),
                              NMul(AnnualMaintenance(data), Py(last.years, 1))))

\* C19 witness: a projection over several years with costs that are not 0 and
\* a net benefit that is not 0
C19_Witness ==
    /\ Returned("calculate_roi_analysis")
    /\ last.years >= 3
    /\ NGt(UpfrontCost(data), Zero)
    /\ NGt(last.res.val.yearly_analysis[1].costs, Zero)
    /\ ~IsZero(last.res.val.net_benefit)

\* C20 as stated: a call of calculate_baseline_metrics leaves self.data, the
\* improvement factors and the constants as they were.
C20_BaselineLeavesAnalyzerUnchanged ==
    [][ (last = Idle /\ last'.op = "calculate_baseline_metrics") =>
          (data' = data /\ ai_improvements' = ai_improvements
             /\ japan_constants' = japan_constants) ]_vars

\* C15: generate_analysis_report returns a report with its five sections,
\* each of them whole, or raises the exception of one of the computations
\* it calls and returns nothing; with the five factors there it returns.
C15_ReportWholeOrError ==
    last.op = "generate_analysis_report" =>
        /\ last.res.ok =>
             LET report == last.res.val IN
             /\ DOMAIN report = ReportSections
             /\ DOMAIN report.baseline_metrics = MetricKeys
             /\ DOMAIN report.ai_improved_metrics = MetricKeys
             /\ DOMAIN report.annual_savings =
                  {"admin_labor_savings", "error_cost_savings", "additional_revenue",
                   "processing_efficiency_savings", "total_annual_savings"}
             /\ Len(report.roi_analysis.yearly_analysis) = DefaultYears
             /\ DOMAIN report.summary =
                  {"total_annual_savings_trillion_yen", "five_year_roi_percentage",
                   "payback_period_years", "admin_time_reduction_percentage",
                   "error_reduction_percentage", "throughput_increase_percentage"}
        /\ ~last.res.ok =>
             /\ last.res.val = NoDict
             /\ last.res.err = "KeyError"
             /\ ~(FactorKeys \subseteq DOMAIN ai_improvements)
        /\ (FactorKeys \subseteq DOMAIN ai_improvements) => last.res.ok

\* C15 witness: a run on a fresh analyzer that loads its tables and then
\* fails on a missing factor
C15_Witness ==
    /\ Raised("generate_analysis_report")
    /\ last.before = NoDict
    /\ data # NoDict

\* two runs given the same tables, factors and constants
SameInputs(r, q) ==
    r.input = q.input /\ r.factors = q.factors /\ r.constants = q.constants

\* C13: two finished runs of the full pipeline that were given the same
\* input tables, improvement factors and constants, on one analyzer or on
\* two, have identical reports: nothing an earlier run left behind (the
\* stored tables, the state of the numpy generator) changes a later report.
C13_SameInputsSameReport ==
    (first_run # NoRun /\ last_run # NoRun /\ SameInputs(first_run, last_run))
        => last_run.res = first_run.res

\* a second run of the analyzer whose first run loaded the tables itself
\* (the generator has drawn), both with a report
C13_Witness ==
    /\ first_run.res.ok /\ last_run.res.ok
    /\ first_run.who = last_run.who
    /\ started = 2 /\ rng = 1
    /\ SameInputs(first_run, last_run)

\* no two analyzers hold the same factor or constant mapping, and each
\* analyzer's factors and constants are what its own operations made them
OwnMappings ==
    /\ \A a, b \in Analyzers :
         a # b => {fleet[a].ai_improvements, fleet[a].japan_constants}
                     \cap {fleet[b].ai_improvements, fleet[b].japan_constants} = {}
    /\ \A a \in Analyzers :
         /\ objs[fleet[a].ai_improvements] = fleet[a].own_factors
         /\ objs[fleet[a].japan_constants] = fleet[a].own_constants

\* the run that ends in this step
Ended == IF first_run = NoRun THEN first_run' ELSE last_run'
\* a run that ends returns or raises what generate_analysis_report does on
\* the analyzer's own tables with the factors and constants it began with
OwnReport ==
    \A a \in Analyzers :
      (fleet[a].pc # "idle" /\ fleet'[a].pc = "idle") =>
          /\ Ended.who = a
          /\ Ended.res = ReportCall(fleet[a].data, Ended.factors, Ended.constants,
                                    NoDisk).res

\* C14: the analyzers are independent under every interleaving of their
\* steps: each owns its factor and constant mappings, so that overriding
\* those of one analyzer changes neither the factors and constants of
\* another nor the report of a run of another, also of one under way.
C14_AnalyzersIndependent == []OwnMappings /\ [][OwnReport]_vars

\* a report of a run with the default factors, during which the factors of
\* the other analyzer were overridden
C14_Witness ==
    \E a, b \in Analyzers :
      /\ a # b
      /\ first_run.who = a /\ first_run.overlapped /\ first_run.res.ok
      /\ first_run.factors = DefaultImprovements
      /\ fleet[b].own_factors # DefaultImprovements
      /\ fleet[a].own_factors = DefaultImprovements

\* C21: in every report generate_analysis_report returns, the summary is a
\* view of the other sections: the total is the annual savings' total
\* divided by 1e12, the five-year ROI and the payback year are those of the
\* ROI section, and each percentage is 100 times the factor with which the
\* improved metrics of the report were computed from its baseline.
C21_SummaryIsViewOfSections ==
    Returned("generate_analysis_report") =>
        LET report == last.res.val
            summary == report.summary
        IN  /\ summary.total_annual_savings_trillion_yen =
                   NDiv(report.annual_savings["total_annual_savings"], Trillion)
            /\ summary.five_year_roi_percentage = report.roi_analysis.total_roi_percentage
            /\ summary.payback_period_years = report.roi_analysis.payback_period_years
            /\ report.ai_improved_metrics =
                   ImprovedMetrics(ai_improvements, report.baseline_metrics)
            /\ summary.admin_time_reduction_percentage =
                   NMul(ai_improvements["admin_efficiency_gain"], Hundred)
            /\ summary.error_reduction_percentage =
                   NMul(ai_improvements["error_reduction"], Hundred)
            /\ summary.throughput_increase_percentage =
                   NMul(ai_improvements["throughput_increase"], Hundred)

\* a report computed with factors other than the defaults
C21_Witness ==
    /\ Returned("generate_analysis_report")
    /\ ai_improvements = ScenarioFactors
    /\ last.res.val.summary.admin_time_reduction_percentage = Py(50, 1)

\* the improved set is no worse than the baseline: no higher on admin hours,
\* error rate and processing time, no lower on patients per worker, which is
\* positive in the baseline; the cost per patient and the constants are not
\* negative
ValidPair(constants, baseline, ai_metrics) ==
    /\ MetricKeys \subseteq (DOMAIN baseline \cap DOMAIN ai_metrics)
    /\ NLe(ai_metrics["admin_hours_per_patient"], baseline["admin_hours_per_patient"])
    /\ NLe(ai_metrics["billing_error_rate"], baseline["billing_error_rate"])
    /\ NLe(ai_metrics["processing_time_hours"], baseline["processing_time_hours"])
    /\ NGe(ai_metrics["patients_per_worker"], baseline["patients_per_worker"])
    /\ NGt(baseline["patients_per_worker"], Zero)
    /\ NGe(baseline["cost_per_patient"], Zero)
    /\ \A k \in DOMAIN constants : NGe(constants[k], Zero)

NonNegative(m) == \A k \in DOMAIN m : NGe(m[k], Zero)

\* C22 as stated: for a valid pair calculate_cost_savings returns, and each
\* of the four categories and the total is non-negative; so for the call
\* itself and for the call generate_analysis_report makes with the metric
\* sets of its report.
C22_ValidPairGivesNonNegativeSavings ==
    /\ (last.op = "calculate_cost_savings"
          /\ ValidPair(japan_constants, last.baseline, last.ai_metrics))
         => (last.res.ok /\ NonNegative(last.res.val))
    /\ (Returned("generate_analysis_report")
          /\ ValidPair(japan_constants, last.res.val.baseline_metrics,
                       last.res.val.ai_improved_metrics))
         => NonNegative(last.res.val.annual_savings)

\* the same for pairs whose cost per patient is finite
C22_FiniteValidPairGivesNonNegativeSavings ==
    /\ (last.op = "calculate_cost_savings"
          /\ ValidPair(japan_constants, last.baseline, last.ai_metrics)
          /\ IsFin(last.baseline["cost_per_patient"]))
         => (last.res.ok /\ NonNegative(last.res.val))
    /\ (Returned("generate_analysis_report")
          /\ ValidPair(japan_constants, last.res.val.baseline_metrics,
                       last.res.val.ai_improved_metrics)
          /\ IsFin(last.res.val.baseline_metrics["cost_per_patient"]))
         => NonNegative(last.res.val.annual_savings)

\* every cell of every table of an input set is >= 0
NonNegativeColumns(input) ==
    \A n \in DOMAIN input :
      \A i \in DOMAIN input[n] :
        \A c \in DOMAIN input[n][i] : NGe(input[n][i][c], Zero)

\* the invariant of a MetricSet: the error rate in [0, 1], every other
\* field >= 0
ValidMetricSet(m) ==
    \A k \in DOMAIN m :
      /\ NGe(m[k], Zero)
      /\ k = "billing_error_rate" => NLe(m[k], One)

\* C23 as stated: the baseline calculate_baseline_metrics returns for tables
\* with non-negative columns, and the improved set
\* calculate_ai_impact_metrics returns for a baseline that is a valid
\* MetricSet, with whatever factor set the analyzer holds, have an error
\* rate in [0, 1] and every other field >= 0; so do both sets of a report.
C23_MetricSetsValid ==
    /\ (Returned("calculate_baseline_metrics") /\ NonNegativeColumns(last.used))
         => ValidMetricSet(last.res.val)
    /\ (Returned("calculate_ai_impact_metrics") /\ ValidMetricSet(last.baseline))
         => ValidMetricSet(last.res.val)
    /\ (Returned("generate_analysis_report") /\ NonNegativeColumns(data))
         => /\ ValidMetricSet(last.res.val.baseline_metrics)
            /\ ValidMetricSet(last.res.val.ai_improved_metrics)

\* the same for factor sets whose reductions are within [0, 1] and whose
\* throughput increase is >= 0
FactorsInRange ==
    \A k \in DOMAIN ai_improvements :
      /\ NGe(ai_improvements[k], Zero)
      /\ k # "throughput_increase" => NLe(ai_improvements[k], One)
C23_MetricSetsValidForFactorsInRange ==
    FactorsInRange => C23_MetricSetsValid

\* C24: in the projection calculate_roi_analysis returns, the savings of
\* year 1 are the annual savings, the savings of every later year are 1.05
\* times those of the year before, and the costs of every year are the one
\* annual recurring cost.
C24_SavingsGrowCostsStay ==
    Returned("calculate_roi_analysis") =>
        LET yearly_analysis == last.res.val.yearly_analysis IN
        \A y \in DOMAIN yearly_analysis :
          /\ yearly_analysis[y].year = y
          /\ SameValue(yearly_analysis[y].savings,
                       IF y = 1 THEN last.savings["total_annual_savings"]
                       ELSE NMul(yearly_analysis[y - 1].savings, GrowthFactor))
          /\ SameValue(yearly_analysis[y].costs, AnnualMaintenance(data))

\* a projection over three years or more of savings that are not 0
C24_Witness ==
    /\ Returned("calculate_roi_analysis")
    /\ last.years >= 3
    /\ ~IsZero(last.savings["total_annual_savings"])
    /\ ~IsZero(AnnualMaintenance(data))

\* C25: in the projection calculate_roi_analysis returns, cumulative_net of
\* year 1 is the net benefit of year 1 and that of every later year is the
\* one of the year before plus the year's net benefit (the running sum starts
\* at 0, the upfront cost is not taken off); with an upfront cost above 0
\* the roi_percentage of a year is its cumulative_net / upfront cost * 100.
C25_CumulativeNetIsRunningSum ==
    Returned("calculate_roi_analysis") =>
        LET yearly_analysis == last.res.val.yearly_analysis
            upfront_cost == UpfrontCost(data)
        IN  \A y \in DOMAIN yearly_analysis :
              /\ SameValue(yearly_analysis[y].cumulative_net,
                           IF y = 1 THEN yearly_analysis[1].net_benefit
                           ELSE NAdd(yearly_analysis[y - 1].cumulative_net,
                                     yearly_analysis[y].net_benefit))
              /\ NGt(upfront_cost, Zero) =>
                     SameValue(yearly_analysis[y].roi_percentage,
                               NMul(NDiv(yearly_analysis[y].cumulative_net, upfront_cost),
                                    Hundred))

\* a projection over two years or more with an upfront cost above 0 and a
\* first year whose net benefit is not 0
C25_Witness ==
    /\ Returned("calculate_roi_analysis")
    /\ last.years >= 2
    /\ NGt(UpfrontCost(data), Zero)
    /\ ~IsZero(last.res.val.yearly_analysis[1].net_benefit)
    /\ ~IsZero(last.res.val.yearly_analysis[2].roi_percentage)

\* C26: every call of calculate_ai_impact_metrics returns, and the improved
\* set has exactly the keys of the baseline it was given (a field absent from
\* the baseline is absent from the improved set), a baseline field that is
\* not one of the five metrics being carried over with its value.
C26_ImprovedKeepsBaselineKeys ==
    last.op = "calculate_ai_impact_metrics" =>
        /\ last.res.ok
        /\ DOMAIN last.res.val = DOMAIN last.baseline
        /\ \A k \in DOMAIN last.baseline \ MetricKeys :
               last.res.val[k] = last.baseline[k]

\* the same for the calls that return
C26_ReturnedImprovedKeepsBaselineKeys ==
    Returned("calculate_ai_impact_metrics") =>
        /\ DOMAIN last.res.val = DOMAIN last.baseline
        /\ \A k \in DOMAIN last.baseline \ MetricKeys :
               last.res.val[k] = last.baseline[k]

\* C27: no stage writes to the mapping an earlier stage produced.  After
\* calculate_ai_impact_metrics the baseline mapping it was given holds what
\* it held before, the result being another mapping; and the
\* baseline_metrics, ai_improved_metrics and annual_savings of a returned
\* report are what calculate_baseline_metrics, calculate_ai_impact_metrics
\* and calculate_cost_savings compute from the analyzer's data.
C27_StagesLeaveEarlierOutputs ==
    /\ last.op = "calculate_ai_impact_metrics" =>
           /\ last.objects.heap[1] = last.baseline
           /\ last.objects.ai_metrics # 1
           /\ last.res.ok => last.res.val = last.objects.heap[last.objects.ai_metrics]
    /\ Returned("generate_analysis_report") =>
           LET report == last.res.val
               baseline == BaselineCall(data, japan_constants,
                                        [given |-> FALSE, d |-> << >>], last.disk).res.val
               ai_metrics == AiImpactCall(ai_improvements, baseline).val
           IN  /\ report.baseline_metrics = baseline
               /\ report.ai_improved_metrics = ai_metrics
               /\ report.annual_savings =
                      CostSavingsCall(japan_constants, baseline, ai_metrics).val

\* a returned report whose improved set differs from its baseline in all
\* five metrics
C27_Witness ==
    /\ Returned("generate_analysis_report")
    /\ \A k \in MetricKeys :
           ~SameValue(last.res.val.ai_improved_metrics[k],
                      last.res.val.baseline_metrics[k])

\* the intervention-costs table supplied to the analyzer: the one load_data
\* stores under ai_costs, or the one generate_all_datasets returns under
\* ai_implementation_costs; the empty table if there is none
SuppliedCosts(stored) ==
    IF "ai_costs" \in DOMAIN stored /\ ~Empty(stored["ai_costs"])
    THEN stored["ai_costs"]
    ELSE IF GeneratorCostsKey \in DOMAIN stored /\ ~Empty(stored[GeneratorCostsKey])
    THEN stored[GeneratorCostsKey]
    ELSE << >>

\* C28: with a non-empty intervention-costs table supplied, the upfront and
\* the annual recurring cost of calculate_roi_analysis are the column sums of
\* that table, numpy numbers; they are the constants 3e12 and 0.6e12, native
\* floats, only when no such table was supplied.
C28_SuppliedCostsTableUsed ==
    Returned("calculate_roi_analysis") =>
        LET costs == SuppliedCosts(data)
            upfront_cost == IF Empty(costs) THEN Py(3000, 1)
                            ELSE ColSum(costs, "upfront_cost")
            annual_maintenance == IF Empty(costs) THEN Py(600, 1)
                                  ELSE ColSum(costs, "annual_maintenance")
        IN  /\ last.res.val.total_investment =
                   TotalInvestment(upfront_cost, annual_maintenance, last.years)
            /\ \A y \in DOMAIN last.res.val.yearly_analysis :
                   last.res.val.yearly_analysis[y].costs = annual_maintenance

\* the same for the tables stored under ai_costs
C28_StoredCostsTableUsed ==
    (Returned("calculate_roi_analysis") /\ GeneratorCostsKey \notin DOMAIN data) =>
        LET costs == SuppliedCosts(data)
            upfront_cost == IF Empty(costs) THEN Py(3000, 1)
                            ELSE ColSum(costs, "upfront_cost")
            annual_maintenance == IF Empty(costs) THEN Py(600, 1)
                                  ELSE ColSum(costs, "annual_maintenance")
        IN  /\ last.res.val.total_investment =
                   TotalInvestment(upfront_cost, annual_maintenance, last.years)
            /\ \A y \in DOMAIN last.res.val.yearly_analysis :
                   last.res.val.yearly_analysis[y].costs = annual_maintenance

\* upfront costs to compare a projection with: none, 40e9, and 3e12
OtherUpfrontCosts == {Zero, Py(40, 1), Py(3000, 1)}

\* the payback year of the projection with the savings, recurring cost and
\* horizon of the call in last and the upfront cost given
PaybackWithUpfront(upfront_cost) ==
    PaybackYears(YearlyAnalysis(last.savings["total_annual_savings"], upfront_cost,
                                AnnualMaintenance(data), last.years))

\* C29: the payback year calculate_roi_analysis reports is the one of every
\* projection with the same annual savings, annual recurring cost and horizon
\* and another upfront cost, and it is 1 exactly when the annual savings are
\* at least the annual recurring cost.
C29_PaybackIndependentOfUpfront ==
    Returned("calculate_roi_analysis") =>
        /\ \A upfront_cost \in OtherUpfrontCosts :
               PaybackWithUpfront(upfront_cost) = last.res.val.payback_period_years
        /\ last.res.val.payback_period_years = Some(1)
               <=> NGe(last.savings["total_annual_savings"], AnnualMaintenance(data))

\* the same for the horizons of at least one year
C29_PaybackIndependentForValidHorizon ==
    (Returned("calculate_roi_analysis") /\ last.years >= 1) =>
        /\ \A upfront_cost \in OtherUpfrontCosts :
               PaybackWithUpfront(upfront_cost) = last.res.val.payback_period_years
        /\ last.res.val.payback_period_years = Some(1)
               <=> NGe(last.savings["total_annual_savings"], AnnualMaintenance(data))

\* C30: a configuration obtained from load_config() or DEFAULT_CONFIG.copy()
\* is independent of the defaults: whatever entries callers have assigned
\* inside the configurations they obtained, DEFAULT_CONFIG holds the default
\* factors and constants, and so did every configuration load_config()
\* returned when it was returned.
C30_ConfigsIndependentOfDefaults ==
    /\ Content(dicts, DEFAULT_CONFIG) = DefaultSettings
    /\ \A i \in DOMAIN configs :
           configs[i].by = "load_config()" => configs[i].returned = DefaultSettings

\* the entries of DEFAULT_CONFIG itself stay the two mappings of the module
C30_DefaultSectionsStay == dicts[DEFAULT_CONFIG] = ModuleDicts[DEFAULT_CONFIG]

============================================================================
